---------------------------- MODULE Spec2Model ----------------------------
(***************************************************************************)
(* UIM Asset Batch I/O: the import operator (natural sort, per-file decode *)
(* with skip-on-error, optional visibility flipbook), the export operator  *)
(* (triangulate, UIM JSON + legacy .txt pair) and the UIM codec.           *)
(*                                                                         *)
(* Strings are sequences of one-character strings, JSON objects are        *)
(* records (functions on their keys), JSON arrays are sequences, and       *)
(* coordinates are integers (the sign flip y * +-1.0 is exact on floats,   *)
(* so integers lose nothing the properties below depend on).               *)
(***************************************************************************)
EXTENDS Integers, Sequences, FiniteSets, TLC

VARIABLES
    pc,               \* position of the running operator
    selected,         \* import: list of selected file names
    disk,             \* import: file name -> result of json.load on that file
    imp_invert_y,     \* IMPORT_OT_uim_batch.invert_y
    build_animation,  \* IMPORT_OT_uim_batch.build_animation
    cursor,           \* index of the next loop item (1-based)
    imported,         \* import: list of (object id, file name)
    objects,          \* bpy.data.objects created so far, by id 1..Len
    reports,          \* self.report calls, in order
    frame_end,        \* scene.frame_end
    frame_current,    \* scene.frame_current
    kflog,            \* keyframe_insert calls, in order
    calls,            \* _add_visibility_keyframes calls, in order
    scene,            \* export: the objects in scope
    exp_invert_y,     \* EXPORT_OT_uim_batch.invert_y
    selected_only,    \* EXPORT_OT_uim_batch.selected_only
    json_files,       \* export: set of written (name, document) .json files
    txt_files,        \* export: set of written (name, text) .txt files
    exported,         \* export: running count
    rt                \* codec round trip: mesh, flags, document, decoded

vars == <<pc, selected, disk, imp_invert_y, build_animation, cursor, imported,
          objects, reports, frame_end, frame_current, kflog, calls, scene,
          exp_invert_y, selected_only, json_files, txt_files, exported, rt>>

-----------------------------------------------------------------------------
(* Bounds of the model *)

\* most files in one import batch
MaxFiles == 2
\* most objects in one export scope
MaxObjs == 2
\* most objects scheduled in the stand-alone flipbook machine
MaxSched == 3
\* largest frame index / initial timeline end of the flipbook machine
MaxFrame == 3
\* most vertices and triangles of a round-tripped mesh
MaxVerts == 3
MaxTris == 2

-----------------------------------------------------------------------------
(* Characters and strings *)

Range(f) == {f[i] : i \in DOMAIN f}

Digits == <<"0", "1", "2", "3", "4", "5", "6", "7", "8", "9">>

IsDigit(c) == \E i \in 1..10 : Digits[i] = c

DigitVal(c) == (CHOOSE i \in 1..10 : Digits[i] = c) - 1

\* Code points of the characters the file names below are made of.
Ord(c) ==
    CASE c = "." -> 46
      [] IsDigit(c) -> 48 + DigitVal(c)
      [] c = "A" -> 65
      [] c = "B" -> 66
      [] c = "a" -> 97
      [] c = "b" -> 98
      [] c = "j" -> 106
      [] c = "n" -> 110
      [] c = "o" -> 111
      [] c = "s" -> 115
      [] c = "t" -> 116
      [] c = "x" -> 120

LowerChar(c) == IF c = "A" THEN "a" ELSE IF c = "B" THEN "b" ELSE c

\* str.lower
Lower(s) == [i \in 1..Len(s) |-> LowerChar(s[i])]

\* str.isdigit: non-empty and all digits
IsDigitStr(s) == s # <<>> /\ \A i \in 1..Len(s) : IsDigit(s[i])

\* int(s) for a digit string
RECURSIVE ToInt(_)
ToInt(s) ==
    IF s = <<>> THEN 0
    ELSE 10 * ToInt(SubSeq(s, 1, Len(s) - 1)) + DigitVal(s[Len(s)])

\* str < str (lexicographic by code point)
RECURSIVE StrLess(_, _)
StrLess(a, b) ==
    IF a = <<>> THEN b # <<>>
    ELSE IF b = <<>> THEN FALSE
    ELSE IF a[1] # b[1] THEN Ord(a[1]) < Ord(b[1])
    ELSE StrLess(Tail(a), Tail(b))


-----------------------------------------------------------------------------
(* Natural sort of the selected names (execute, lines 127-129) *)

\* Last index of the maximal run of characters of class `dig` that starts at
\* i (i - 1 when the run is empty).
RECURSIVE RunEnd(_, _, _)
RunEnd(s, i, dig) ==
    IF i > Len(s) \/ IsDigit(s[i]) # dig THEN i - 1
    ELSE RunEnd(s, i + 1, dig)

\* re.split(r"(\d+)", s) from position i on: non-digit pieces (possibly
\* empty) and the captured digit runs alternate, first and last a non-digit
\* piece.
RECURSIVE ReSplitFrom(_, _, _)
ReSplitFrom(s, i, dig) ==
    LET e == RunEnd(s, i, dig)
        t == SubSeq(s, i, e)
    IN  IF dig THEN <<t>> \o ReSplitFrom(s, e + 1, FALSE)
        ELSE IF e >= Len(s) THEN <<t>>
        ELSE <<t>> \o ReSplitFrom(s, e + 1, TRUE)

ReSplit(s) == ReSplitFrom(s, 1, FALSE)

\* A key token: an integer (int(t)) or a string (t.lower()).
IntTok(n) == [int |-> TRUE, n |-> n, s |-> <<>>]
StrTok(s) == [int |-> FALSE, n |-> 0, s |-> s]

\* Variant of the key that leaves digit runs as strings (no int()).
NaturalKeyNoInt(s) ==
    LET ts == ReSplit(s) IN [i \in 1..Len(ts) |-> StrTok(Lower(ts[i]))]

\* _natural_key(s)
NaturalKey(s) ==
    LET ts == ReSplit(s)
    IN  [i \in 1..Len(ts) |->
            IF IsDigitStr(ts[i]) THEN IntTok(ToInt(ts[i]))
            ELSE StrTok(Lower(ts[i]))]

\* Python's < on two tokens of the same type.  Tokens of one position always
\* have the same type (strings at odd positions, integers at even ones), so
\* the int-with-str comparison, a TypeError in Python, is never evaluated.
TokLess(a, b) ==
    IF a.int /\ b.int THEN a.n < b.n
    ELSE IF ~a.int /\ ~b.int THEN StrLess(a.s, b.s)
    ELSE FALSE

\* Python's < on two key lists: the first differing position decides, a
\* proper prefix is smaller.
RECURSIVE KeyLess(_, _)
KeyLess(k1, k2) ==
    IF k1 = <<>> THEN k2 # <<>>
    ELSE IF k2 = <<>> THEN FALSE
    ELSE IF k1[1] # k2[1] THEN TokLess(k1[1], k2[1])
    ELSE KeyLess(Tail(k1), Tail(k2))

\* Insert x after every element whose key is not greater than x's.
RECURSIVE InsertByKey(_, _)
InsertByKey(sorted, x) ==
    IF sorted = <<>> THEN <<x>>
    ELSE IF KeyLess(NaturalKey(x), NaturalKey(sorted[1]))
         THEN <<x>> \o sorted
         ELSE <<sorted[1]>> \o InsertByKey(Tail(sorted), x)

\* list.sort(key=_natural_key): a stable sort.
RECURSIVE SortNatural(_)
SortNatural(names) ==
    IF names = <<>> THEN <<>>
    ELSE InsertByKey(SortNatural(SubSeq(names, 1, Len(names) - 1)),
                     names[Len(names)])

-----------------------------------------------------------------------------
(* UIM codec: _parse_uim_json and the document built by the export *)

\* The value json.load returns: a JSON array or a JSON object at the root.
JList(items) == [type |-> "list", items |-> items]
JDict(fields) == [type |-> "dict", items |-> fields]

\* sign = -1.0 if invert_y else 1.0
Sign(invert_y) == IF invert_y THEN -1 ELSE 1

\* Number of values of range(0, n, 3)
WindowCount(n) == (n + 2) \div 3

\* indices[i + 2] is out of range for some i of range(0, len(indices), 3)
FacesRaises(indices) ==
    \E j \in 1..WindowCount(Len(indices)) : 3 * j > Len(indices)

\* [(indices[i], indices[i + 1], indices[i + 2]) for i in range(0, len, 3)]
Faces(indices) ==
    [j \in 1..WindowCount(Len(indices)) |->
        <<indices[3 * j - 2], indices[3 * j - 1], indices[3 * j]>>]

Raised(exc) == [ok |-> FALSE, exc |-> exc, verts |-> <<>>, faces |-> <<>>]

\* _parse_uim_json(filepath, invert_y) on the loaded document `data`: the
\* (verts, faces) pair, or the exception it raises.
ParseUimJson(data, invert_y) ==
    IF data.type # "list" \/ data.items = <<>> THEN Raised("ValueError")
    ELSE LET asset == data.items[1] IN
      IF "Properties" \notin DOMAIN asset THEN Raised("KeyError")
      ELSE IF "UimData" \notin DOMAIN asset.Properties THEN Raised("KeyError")
      ELSE LET uim == asset.Properties.UimData IN
        IF "p2DGeomVertex" \notin DOMAIN uim THEN Raised("KeyError")
        ELSE IF "Indices" \notin DOMAIN uim THEN Raised("KeyError")
        ELSE LET verts2d == uim.p2DGeomVertex
                 indices == uim.Indices
             IN  IF FacesRaises(indices) THEN Raised("IndexError")
                 ELSE [ok |-> TRUE, exc |-> "",
                       verts |-> [i \in 1..Len(verts2d) |->
                                    <<verts2d[i].x,
                                      verts2d[i].y * Sign(invert_y), 0>>],
                       faces |-> Faces(indices)]

\* indices.extend(p.vertices) for every polygon with exactly 3 vertices
RECURSIVE TriangleIndices(_)
TriangleIndices(polygons) ==
    IF polygons = <<>> THEN <<>>
    ELSE (IF Len(polygons[1]) = 3 THEN polygons[1] ELSE <<>>)
         \o TriangleIndices(Tail(polygons))

\* verts = [{'x': v.co.x, 'y': v.co.y * sign} for v in mesh.vertices]
ExportVerts(vertices, invert_y) ==
    [i \in 1..Len(vertices) |->
        [x |-> vertices[i][1], y |-> vertices[i][2] * Sign(invert_y)]]

\* The document json.dump writes: [asset]
EncodeUim(mesh, name, invert_y) ==
    LET verts == ExportVerts(mesh.vertices, invert_y)
        indices == TriangleIndices(mesh.polygons)
        uim == [frameNum |-> 1,
                vertexNum |-> Len(verts),
                polygonNum |-> Len(indices) \div 3,
                indexNum |-> Len(indices),
                coordinate |-> 3,
                geomFormat |-> 1,
                animFormat |-> 1,
                p2DGeomVertex |-> verts,
                p2DAnimVertex |-> verts,
                Indices |-> indices]
    IN  JList(<<[Type |-> "UimAsset",
                 Name |-> name,
                 Class |-> "UScriptClass'UimAsset'",
                 Flags |-> "RF_Public | RF_Standalone | RF_LoadCompleted",
                 Properties |-> [UimData |-> uim]]>>)

\* f"{v:.6f}": the value in millionths stands for its 6-decimal text
Fix6(v) == v * 1000000

\* _write_txt: min(xs) raises ValueError on an empty vertex list, before the
\* file is opened; otherwise the text written.
WriteTxt(verts, indices, name) ==
    IF verts = <<>> THEN [ok |-> FALSE, exc |-> "ValueError", text |-> <<>>]
    ELSE [ok |-> TRUE, exc |-> "",
          text |-> [frameSkip |-> 0, frameNum |-> 1,
                    vertexNum |-> Len(verts),
                    polygonNum |-> Len(indices) \div 3,
                    indexNum |-> Len(indices),
                    coordinate |-> 3, geomFormat |-> 1, animFormat |-> 1,
                    p2DGeomVertex |->
                        [i \in 1..Len(verts) |->
                            [X |-> Fix6(verts[i].x), Y |-> Fix6(verts[i].y)]]]]

\* bm.from_mesh(mesh): the faces of the mesh become faces of the BMesh, in
\* order.  A face that names a vertex twice is not one the host defines a
\* result for: the build either keeps it or skips it (`skip`).
FromMesh(polygons, skip) ==
    SelectSeq(polygons,
              LAMBDA p : ~skip \/ Cardinality(Range(p)) = Len(p))

\* The triangles a face of four or more corners is cut into: a fan around
\* one of its corners (the host picks; `alt` is that choice), in the order
\* of the face's corners.
Fan(p, alt) ==
    LET n == Len(p)
        a == IF alt THEN 2 ELSE 1
        at(i) == p[((i - 1) % n) + 1]
    IN  [k \in 1..(n - 2) |-> <<at(a), at(a + k), at(a + k + 1)>>]

\* The triangles that bmesh.ops.triangulate adds to the face list: all but
\* the first triangle of every face of four or more corners.
RECURSIVE NewFaces(_, _)
NewFaces(polygons, alt) ==
    IF polygons = <<>> THEN <<>>
    ELSE LET p == polygons[1] IN
         (IF Len(p) > 3 THEN Tail(Fan(p, alt)) ELSE <<>>)
         \o NewFaces(Tail(polygons), alt)

\* bmesh.ops.triangulate(bm, faces=bm.faces[:]) then bm.to_mesh(mesh): a
\* face of three corners stays as it is; a face of more corners becomes the
\* first triangle of its fan, in its place, and the other triangles follow
\* the faces of the mesh.
Triangulate(polygons, alt) ==
    [i \in 1..Len(polygons) |->
        IF Len(polygons[i]) > 3 THEN Fan(polygons[i], alt)[1]
        ELSE polygons[i]]
    \o NewFaces(polygons, alt)


-----------------------------------------------------------------------------
(* File names: os.path.splitext and the frame regex *)

LastDot(s) ==
    IF \E i \in 1..Len(s) : s[i] = "."
    THEN CHOOSE i \in 1..Len(s) :
            s[i] = "." /\ \A j \in (i + 1)..Len(s) : s[j] # "."
    ELSE 0

\* os.path.splitext(fname)[0]: cut at the last dot, leading dots aside
SplitExtRoot(s) ==
    LET d == LastDot(s)
    IN  IF d = 0 \/ \A i \in 1..(d - 1) : s[i] = "." THEN s
        ELSE SubSeq(s, 1, d - 1)

DotJson == <<".", "j", "s", "o", "n">>

\* First index of the maximal digit run that ends at i
RECURSIVE RunStart(_, _)
RunStart(s, i) ==
    IF i > 1 /\ IsDigit(s[i - 1]) THEN RunStart(s, i - 1) ELSE i

\* re.compile(r"(\d+)(?=\.json$)").search(fname) finds a match
HasFrameNumber(fname) ==
    LET n == Len(fname)
    IN  /\ n >= 6
        /\ SubSeq(fname, n - 4, n) = DotJson
        /\ IsDigit(fname[n - 5])

\* int(m.group(1)): the digit run right before ".json"
FrameNumber(fname) ==
    LET n == Len(fname)
    IN  ToInt(SubSeq(fname, RunStart(fname, n - 5), n - 5))

\* list.index(x): zero-based position of the first equal element
IndexOf(seq, x) == (CHOOSE i \in 1..Len(seq) :
                       seq[i] = x /\ \A j \in 1..(i - 1) : seq[j] # x) - 1

\* frame_idx = int(m.group(1)) if m else imported.index((obj, fname))
FrameIdx(imp, item) ==
    IF HasFrameNumber(item[2]) THEN FrameNumber(item[2])
    ELSE IndexOf(imp, item)

-----------------------------------------------------------------------------
(* Visibility flipbook: _add_visibility_keyframes *)

\* mesh.validate(): a face is removed when one of its indices is not a
\* vertex of the mesh, when it uses a vertex twice, or when an earlier face
\* that is kept uses the same vertices.
ValidateFaces(verts, faces) ==
    LET sound(f) ==
            /\ \A k \in 1..3 : f[k] >= 0 /\ f[k] < Len(verts)
            /\ f[1] # f[2] /\ f[1] # f[3] /\ f[2] # f[3]
        kept(i) ==
            /\ sound(faces[i])
            /\ \A h \in 1..(i - 1) :
                  sound(faces[h]) => Range(faces[h]) # Range(faces[i])
        RECURSIVE Keep(_)
        Keep(i) == IF i > Len(faces) THEN <<>>
                   ELSE (IF kept(i) THEN <<faces[i]>> ELSE <<>>) \o Keep(i + 1)
    IN  Keep(1)

Truncate(name, n) == SubSeq(name, 1, IF Len(name) < n THEN Len(name) ELSE n)

\* ".001", ".002", ...
NumberSuffix(n) ==
    <<".", Digits[((n \div 100) % 10) + 1], Digits[((n \div 10) % 10) + 1],
      Digits[(n % 10) + 1]>>

\* Index of the "." that starts the number suffix of a name, 0 when there is
\* none: scanning back from the end over digits, the first other character
\* is a ".".  A name of two or more characters that ends with "." has no
\* suffix; the name "." is an empty stem with an empty suffix.
SuffixDot(name) ==
    LET n == Len(name)
        a == RunStart(name, n + 1) - 1
    IN  IF n = 0 \/ (n > 1 /\ name[n] = ".") THEN 0
        ELSE IF a >= 1 /\ name[a] = "." THEN a
        ELSE 0

\* The name without its number suffix
StripNumberSuffix(name) ==
    LET d == SuffixDot(name)
    IN  IF d > 0 THEN SubSeq(name, 1, d - 1) ELSE name

\* The number of the suffix, 0 when the name has none (or an empty one)
SuffixNumber(name) ==
    LET d == SuffixDot(name)
    IN  IF d > 0 THEN ToInt(SubSeq(name, d + 1, Len(name))) ELSE 0

\* The numbers in use for a stem: those of the existing names with that stem
UsedNumbers(existing, stem) ==
    {SuffixNumber(e) : e \in {x \in existing : StripNumberSuffix(x) = stem}}

\* The name a datablock gets when `name` is asked for: the name itself when
\* it is free; otherwise its stem with the name's own number when that is
\* not in use, else with the smallest number from 1 not in use.  A stem too
\* long to take a suffix within 63 characters is cut to 59 characters and
\* the cut name is tried again as a requested name.
RECURSIVE GetName(_, _)
GetName(existing, name) ==
    LET stem == StripNumberSuffix(name)
        used == UsedNumbers(existing, stem)
        num  == IF SuffixNumber(name) \notin used THEN SuffixNumber(name)
                ELSE CHOOSE n \in 1..999 :
                        n \notin used /\ \A m \in 1..(n - 1) : m \in used
    IN  IF name \notin existing THEN name
        ELSE IF Len(stem) + 4 >= 64 THEN GetName(existing, Truncate(stem, 59))
        ELSE stem \o NumberSuffix(num)

\* The name a new datablock gets (bpy.data.meshes.new, bpy.data.objects.new):
\* the requested name cut to 63 characters, then made unique.
UniqueName(existing, name) == GetName(existing, Truncate(name, 63))

\* _create_mesh(context, name, verts, faces) in a file that holds the
\* objects `objs`: the mesh is built from verts and faces and validated, the
\* mesh and the object get free names, and the object starts visible with no
\* animation data.
NewObject(objs, name, verts, faces) ==
    [name |-> UniqueName({objs[i].name : i \in 1..Len(objs)}, name),
     mesh_name |-> UniqueName({objs[i].mesh_name : i \in 1..Len(objs)}, name),
     verts |-> verts, faces |-> ValidateFaces(verts, faces),
     hide_viewport |-> FALSE, hide_render |-> FALSE,
     anim_viewport |-> {}, anim_render |-> {}]

\* Variant that always assigns frame_idx + 1.
NewFrameEndAlways(end, frame_idx) == frame_idx + 1

\* if scene.frame_end < frame_idx + 1: scene.frame_end = frame_idx + 1
NewFrameEnd(end, frame_idx) ==
    IF end < frame_idx + 1 THEN frame_idx + 1 ELSE end

Write(f, hide) == [frame |-> f, hide |-> hide]

\* Variant without the `if f < 0: continue` guard.
KeyframeWritesNoGuard(frame_idx) ==
    <<Write(0, TRUE), Write(frame_idx - 1, TRUE),
      Write(frame_idx, FALSE), Write(frame_idx + 1, TRUE)>>

\* Variant that turns the object off one frame late.
KeyframeWritesLateOff(frame_idx) ==
    SelectSeq(<<Write(0, TRUE), Write(frame_idx - 1, TRUE)>>,
              LAMBDA w : ~(w.frame < 0))
    \o <<Write(frame_idx, FALSE), Write(frame_idx + 2, TRUE)>>

\* The (frame_set, hide value) steps in program order: hidden at 0 and at
\* frame_idx - 1 (a negative frame is skipped), visible at frame_idx, hidden
\* at frame_idx + 1.
KeyframeWrites(frame_idx) ==
    SelectSeq(<<Write(0, TRUE), Write(frame_idx - 1, TRUE)>>,
              LAMBDA w : ~(w.frame < 0))
    \o <<Write(frame_idx, FALSE), Write(frame_idx + 1, TRUE)>>

\* keyframe_insert at frame f: a key on that frame is replaced
InsertKey(keys, f, v) == {p \in keys : p[1] # f} \cup {<<f, v>>}

\* One step: frame_set(f); both flags assigned; both data paths keyed
ApplyWrite(obj, w) ==
    [obj EXCEPT !.hide_viewport = w.hide,
                !.hide_render = w.hide,
                !.anim_viewport = InsertKey(@, w.frame, w.hide),
                !.anim_render = InsertKey(@, w.frame, w.hide)]

RECURSIVE ApplyWrites(_, _)
ApplyWrites(obj, ws) ==
    IF ws = <<>> THEN obj
    ELSE ApplyWrites(ApplyWrite(obj, ws[1]), Tail(ws))

\* The keyframe_insert calls of one object's steps, in order
RECURSIVE LogWrites(_, _)
LogWrites(o, ws) ==
    IF ws = <<>> THEN <<>>
    ELSE <<[obj |-> o, data_path |-> "hide_viewport",
            frame |-> ws[1].frame, value |-> ws[1].hide],
           [obj |-> o, data_path |-> "hide_render",
            frame |-> ws[1].frame, value |-> ws[1].hide]>>
         \o LogWrites(o, Tail(ws))

\* _add_visibility_keyframes(objects[o], frame_idx)
AddVisibilityKeyframes(o, frame_idx) ==
    LET ws == KeyframeWrites(frame_idx) IN
    /\ frame_end' = NewFrameEnd(frame_end, frame_idx)
    /\ frame_current' = ws[Len(ws)].frame
    /\ objects' = [objects EXCEPT ![o] = ApplyWrites(@, ws)]
    /\ kflog' = kflog \o LogWrites(o, ws)
    /\ calls' = Append(calls, <<o, frame_idx>>)

-----------------------------------------------------------------------------
(* Inputs *)

\* Sequences over S of length lo..hi
SeqsOf(S, lo, hi) == UNION {[1..n -> S] : n \in lo..hi}

Distinct(f) == \A i, j \in DOMAIN f : i # j => f[i] # f[j]

\* File names a batch is selected from
NamePool ==
    {<<"a", "1">> \o DotJson, <<"a", "2">> \o DotJson,
     <<"a", "1", "0">> \o DotJson, <<"b">> \o DotJson,
     <<"B", "2">> \o DotJson, <<"1", "b">> \o DotJson,
     <<"a", "1", ".", "t", "x", "t">>}

TriVerts == <<[x |-> 0, y |-> 0], [x |-> 2, y |-> 0], [x |-> 0, y |-> 3]>>

UimDoc(uim) == JList(<<[Properties |-> [UimData |-> uim]]>>)

\* A well-formed document: one triangle
GoodDoc == UimDoc([p2DGeomVertex |-> TriVerts, Indices |-> <<0, 1, 2>>])
\* Well-formed structure, index count not a multiple of 3
TrailingDoc == UimDoc([p2DGeomVertex |-> TriVerts, Indices |-> <<0, 1, 2, 0>>])
\* Root is an object: {}
DictRootDoc == JDict(<<>>)
\* Root is an empty list: []
EmptyListDoc == JList(<<>>)
\* Required fields absent
NoIndicesDoc == UimDoc([p2DGeomVertex |-> TriVerts])
NoVertsDoc == UimDoc([Indices |-> <<0, 1, 2>>])
\* Decodes without error; only its first face is valid geometry: the others
\* use a vertex twice, repeat the first face, or name no vertex
InvalidFacesDoc ==
    UimDoc([p2DGeomVertex |-> TriVerts,
            Indices |-> <<0, 1, 2, 0, 0, 1, 2, 0, 1, 7, 8, 9>>])

DocPool ==
    {GoodDoc, InvalidFacesDoc, TrailingDoc, DictRootDoc, EmptyListDoc,
     NoIndicesDoc, NoVertsDoc}

\* Values of every variable an operator does not use
IdleImport ==
    /\ selected = <<>> /\ disk = <<>> /\ imp_invert_y = TRUE
    /\ build_animation = FALSE /\ imported = <<>>
IdleTimeline ==
    /\ frame_end = 250 /\ frame_current = 1 /\ kflog = <<>> /\ calls = <<>>
IdleExport ==
    /\ scene = <<>> /\ exp_invert_y = TRUE /\ selected_only = TRUE
    /\ json_files = {} /\ txt_files = {} /\ exported = 0
IdleRt == rt = [stage |-> "idle"]

gInputs == <<disk, imp_invert_y, build_animation, scene, exp_invert_y,
             selected_only>>
gTimeline == <<frame_end, frame_current, kflog, calls>>
gExport == <<json_files, txt_files, exported>>

-----------------------------------------------------------------------------
(* IMPORT_OT_uim_batch.execute *)

InitImport ==
    /\ pc = "sort"
    /\ selected \in {f \in SeqsOf(NamePool, 1, MaxFiles) : Distinct(f)}
    /\ disk \in [Range(selected) -> DocPool]
    /\ imp_invert_y \in BOOLEAN
    /\ build_animation \in BOOLEAN
    /\ cursor = 1
    /\ imported = <<>>
    /\ objects = <<>>
    /\ reports = <<>>
    /\ frame_end = 2
    /\ frame_current = 1
    /\ kflog = <<>>
    /\ calls = <<>>
    /\ IdleExport
    /\ IdleRt

\* selected.sort(key=_natural_key)
SortSelected ==
    /\ pc = "sort"
    /\ selected' = SortNatural(selected)
    /\ pc' = "import"
    /\ UNCHANGED <<cursor, imported, objects, reports, rt>>
    /\ UNCHANGED <<gInputs, gTimeline, gExport>>

\* One loop iteration whose decode succeeds: the object is created and
\* recorded.
ImportFile ==
    /\ pc = "import"
    /\ cursor <= Len(selected)
    /\ LET fname == selected[cursor]
           r == ParseUimJson(disk[fname], imp_invert_y)
       IN  /\ r.ok
           /\ objects' = Append(objects,
                                NewObject(objects, SplitExtRoot(fname),
                                          r.verts, r.faces))
           /\ imported' = Append(imported, <<Len(objects) + 1, fname>>)
    /\ cursor' = cursor + 1
    /\ UNCHANGED <<pc, selected, reports, rt>>
    /\ UNCHANGED <<gInputs, gTimeline, gExport>>

\* One loop iteration whose decode raises: a warning is reported, the loop
\* continues.
SkipFile ==
    /\ pc = "import"
    /\ cursor <= Len(selected)
    /\ LET fname == selected[cursor]
           r == ParseUimJson(disk[fname], imp_invert_y)
       IN  /\ ~r.ok
           /\ reports' = Append(reports, [level |-> "WARNING",
                                          fname |-> fname, exc |-> r.exc])
    /\ cursor' = cursor + 1
    /\ UNCHANGED <<pc, selected, imported, objects, rt>>
    /\ UNCHANGED <<gInputs, gTimeline, gExport>>

\* Variant that always enters the flipbook phase.
AfterImportAlways(build) == "anim"

\* if self.build_animation: ... ; return {'FINISHED'}
AfterImport(build) == IF build THEN "anim" ELSE "done"

EndImportLoop ==
    /\ pc = "import"
    /\ cursor > Len(selected)
    /\ pc' = AfterImport(build_animation)
    /\ cursor' = 1
    /\ UNCHANGED <<selected, imported, objects, reports, rt>>
    /\ UNCHANGED <<gInputs, gTimeline, gExport>>

\* One iteration of `for obj, fname in imported`
FlipbookStep ==
    /\ pc = "anim"
    /\ cursor <= Len(imported)
    /\ AddVisibilityKeyframes(imported[cursor][1],
                              FrameIdx(imported, imported[cursor]))
    /\ cursor' = cursor + 1
    /\ UNCHANGED <<pc, selected, imported, reports, rt>>
    /\ UNCHANGED <<gInputs, gExport>>

EndFlipbook ==
    /\ pc = "anim"
    /\ cursor > Len(imported)
    /\ pc' = "done"
    /\ UNCHANGED <<cursor, selected, imported, objects, reports, rt>>
    /\ UNCHANGED <<gInputs, gTimeline, gExport>>

Next ==
    \/ SortSelected
    \/ ImportFile
    \/ SkipFile
    \/ EndImportLoop
    \/ FlipbookStep
    \/ EndFlipbook

Spec == InitImport /\ [][Next]_vars

-----------------------------------------------------------------------------
(* _add_visibility_keyframes on its own: any frame index, any timeline end *)

\* n objects created one after the other under the same requested name
RECURSIVE FreshObjects(_)
FreshObjects(n) ==
    IF n = 0 THEN <<>>
    ELSE LET objs == FreshObjects(n - 1)
         IN  Append(objs, NewObject(objs, <<"a">>, <<>>, <<>>))

InitFlipbook ==
    /\ pc = "flip"
    /\ \E n \in 1..MaxSched : objects = FreshObjects(n)
    /\ frame_end \in 0..(MaxFrame + 2)
    /\ frame_current = 1
    /\ kflog = <<>>
    /\ calls = <<>>
    /\ cursor = 1
    /\ reports = <<>>
    /\ IdleImport
    /\ IdleExport
    /\ IdleRt

\* The next object is scheduled at some frame index
Schedule ==
    /\ pc = "flip"
    /\ cursor <= Len(objects)
    /\ \E frame_idx \in 0..MaxFrame : AddVisibilityKeyframes(cursor, frame_idx)
    /\ cursor' = cursor + 1
    /\ UNCHANGED <<pc, selected, imported, reports, rt>>
    /\ UNCHANGED <<gInputs, gExport>>

NextFlipbook == Schedule

SpecFlipbook == InitFlipbook /\ [][NextFlipbook]_vars

-----------------------------------------------------------------------------
(* EXPORT_OT_uim_batch.execute *)

\* Object names, by position in the scene (names are unique in the host)
ObjNames == <<<<"a">>, <<"b">>, <<"x">>, <<"t">>, <<"n">>>>



\* Meshes an exported object may carry: no vertex at all, a lone vertex, a
\* triangle, a quad, and a pentagon next to a triangle.
ExportMeshPool ==
    {[vertices |-> <<>>, polygons |-> <<>>],
     [vertices |-> <<<<1, 2, 0>>>>, polygons |-> <<>>],
     [vertices |-> <<<<0, 0, 0>>, <<2, 0, 0>>, <<0, 3, 0>>>>,
      polygons |-> <<<<0, 1, 2>>>>],
     [vertices |-> <<<<0, 0, 0>>, <<2, 0, 0>>, <<2, 3, 0>>, <<0, 3, 0>>>>,
      polygons |-> <<<<0, 1, 2, 3>>>>],
     [vertices |-> <<<<0, 0, 0>>, <<2, 0, 0>>, <<3, 2, 0>>, <<1, 4, 0>>,
                     <<-1, 2, 0>>, <<5, 0, 0>>>>,
      polygons |-> <<<<0, 1, 2, 3, 4>>, <<1, 5, 2>>>>]}

\* Objects of the scene: meshes, and objects of another type (no mesh data)
SceneObjects(name) ==
    {[type |-> "MESH", name |-> name, select |-> sel, mesh |-> m] :
        sel \in BOOLEAN, m \in ExportMeshPool}
    \cup {[type |-> "EMPTY", name |-> name, select |-> sel,
           mesh |-> [vertices |-> <<>>, polygons |-> <<>>]] : sel \in BOOLEAN}

InitExport ==
    /\ pc = "export"
    /\ \E n \in 1..MaxObjs :
          scene \in {f \in [1..n -> UNION {SceneObjects(ObjNames[i]) : i \in 1..n}] :
                        \A i \in 1..n : f[i].name = ObjNames[i]}
    /\ exp_invert_y \in BOOLEAN
    /\ selected_only \in BOOLEAN
    /\ json_files = {}
    /\ txt_files = {}
    /\ exported = 0
    /\ cursor = 1
    /\ reports = <<>>
    /\ objects = <<>>
    /\ IdleImport
    /\ IdleTimeline
    /\ IdleRt

\* objects = context.selected_objects if self.selected_only
\*           else context.scene.objects
Scope == IF selected_only THEN SelectSeq(scene, LAMBDA o : o.select) ELSE scene

\* open(path, 'w') then write: a file of that name is replaced
WriteFile(files, fname, content) ==
    {f \in files : f[1] # fname} \cup {<<fname, content>>}

DotTxt == <<".", "t", "x", "t">>

\* if obj.type != 'MESH': continue
ExportSkip ==
    /\ pc = "export"
    /\ cursor <= Len(Scope)
    /\ Scope[cursor].type # "MESH"
    /\ cursor' = cursor + 1
    /\ UNCHANGED <<pc, selected, imported, objects, reports, rt>>
    /\ UNCHANGED <<gInputs, gTimeline, gExport>>

\* The mesh handed to the codec: obj.to_mesh() through the BMesh and back,
\* triangulated
Triangulated(obj, alt, skip) ==
    [vertices |-> obj.mesh.vertices,
     polygons |-> Triangulate(FromMesh(obj.mesh.polygons, skip), alt)]

\* One mesh object: the .json is dumped, then _write_txt writes the .txt,
\* then the count goes up.
ExportPair ==
    /\ pc = "export"
    /\ cursor <= Len(Scope)
    /\ Scope[cursor].type = "MESH"
    /\ \E alt \in BOOLEAN, skip \in BOOLEAN :
        LET obj == Scope[cursor]
            mesh == Triangulated(obj, alt, skip)
            verts == ExportVerts(mesh.vertices, exp_invert_y)
            indices == TriangleIndices(mesh.polygons)
            txt == WriteTxt(verts, indices, obj.name)
        IN  /\ txt.ok
            /\ json_files' = WriteFile(json_files, obj.name \o DotJson,
                                       EncodeUim(mesh, obj.name, exp_invert_y))
            /\ txt_files' = WriteFile(txt_files, obj.name \o DotTxt, txt.text)
    /\ exported' = exported + 1
    /\ cursor' = cursor + 1
    /\ UNCHANGED <<pc, selected, imported, objects, reports, rt>>
    /\ UNCHANGED <<gInputs, gTimeline>>

\* One mesh object whose _write_txt raises: the .json is already on disk,
\* no .txt is written, and the exception leaves execute.
ExportTxtRaises ==
    /\ pc = "export"
    /\ cursor <= Len(Scope)
    /\ Scope[cursor].type = "MESH"
    /\ \E alt \in BOOLEAN, skip \in BOOLEAN :
        LET obj == Scope[cursor]
            mesh == Triangulated(obj, alt, skip)
            verts == ExportVerts(mesh.vertices, exp_invert_y)
            indices == TriangleIndices(mesh.polygons)
            txt == WriteTxt(verts, indices, obj.name)
        IN  /\ ~txt.ok
            /\ json_files' = WriteFile(json_files, obj.name \o DotJson,
                                       EncodeUim(mesh, obj.name, exp_invert_y))
    /\ pc' = "raised"
    /\ UNCHANGED <<cursor, selected, imported, objects, reports, rt>>
    /\ UNCHANGED <<gInputs, gTimeline, txt_files, exported>>

\* self.report({'INFO'}, f"Exported {exported} ...") and return
ExportReport ==
    /\ pc = "export"
    /\ cursor > Len(Scope)
    /\ reports' = Append(reports, [level |-> "INFO", count |-> exported])
    /\ pc' = "done"
    /\ UNCHANGED <<cursor, selected, imported, objects, rt>>
    /\ UNCHANGED <<gInputs, gTimeline, gExport>>

NextExport ==
    \/ ExportSkip
    \/ ExportPair
    \/ ExportTxtRaises
    \/ ExportReport

SpecExport == InitExport /\ [][NextExport]_vars

-----------------------------------------------------------------------------
(* Codec round trip: the export's document decoded by the import's parser *)

VertexPool == {<<1, -2, 0>>, <<-3, 4, 0>>}

\* Triangle meshes of at most nv vertices and nt triangles: every polygon
\* has exactly 3 indices, each of a vertex
TriangleMeshes(nv, nt) ==
    UNION {{[vertices |-> vs, polygons |-> ps] :
               ps \in SeqsOf((0..(Len(vs) - 1)) \X (0..(Len(vs) - 1))
                                 \X (0..(Len(vs) - 1)), 0, nt)} :
           vs \in SeqsOf(VertexPool, 0, nv)}

InitRoundTrip ==
    /\ pc = "rt"
    /\ rt \in {[stage |-> "mesh", mesh |-> m, enc_invert_y |-> e,
                dec_invert_y |-> d, doc |-> <<>>, verts |-> <<>>,
                faces |-> <<>>] :
                  m \in TriangleMeshes(MaxVerts, MaxTris),
                  e \in BOOLEAN, d \in BOOLEAN}
    /\ cursor = 1
    /\ reports = <<>>
    /\ objects = <<>>
    /\ IdleImport
    /\ IdleTimeline
    /\ IdleExport

\* The document the export builds for the mesh (lines 180-216)
RtEncode ==
    /\ pc = "rt"
    /\ rt.stage = "mesh"
    /\ \E alt \in BOOLEAN, skip \in BOOLEAN :
          rt' = [rt EXCEPT !.stage = "encoded",
                           !.doc = EncodeUim(
                               [vertices |-> rt.mesh.vertices,
                                polygons |->
                                  Triangulate(FromMesh(rt.mesh.polygons, skip),
                                              alt)],
                               <<"a">>, rt.enc_invert_y)]
    /\ UNCHANGED <<pc, cursor, selected, imported, objects, reports>>
    /\ UNCHANGED <<gInputs, gTimeline, gExport>>

\* _parse_uim_json on that document
RtDecode ==
    /\ pc = "rt"
    /\ rt.stage = "encoded"
    /\ LET r == ParseUimJson(rt.doc, rt.dec_invert_y)
       IN  rt' = [rt EXCEPT !.stage = IF r.ok THEN "decoded" ELSE "raised",
                            !.verts = r.verts,
                            !.faces = r.faces]
    /\ UNCHANGED <<pc, cursor, selected, imported, objects, reports>>
    /\ UNCHANGED <<gInputs, gTimeline, gExport>>

NextRoundTrip ==
    \/ RtEncode
    \/ RtDecode

SpecRoundTrip == InitRoundTrip /\ [][NextRoundTrip]_vars

-----------------------------------------------------------------------------
(* Properties of the batch import *)

\* The document has the structure the decoder requires: a non-empty list
\* whose first asset carries Properties.UimData.p2DGeomVertex and .Indices.
WellFormed(data) ==
    /\ data.type = "list"
    /\ data.items # <<>>
    /\ "Properties" \in DOMAIN data.items[1]
    /\ "UimData" \in DOMAIN data.items[1].Properties
    /\ "p2DGeomVertex" \in DOMAIN data.items[1].Properties.UimData
    /\ "Indices" \in DOMAIN data.items[1].Properties.UimData

\* The object carries the file's base name, possibly with the host's
\* suffix for a name that was taken
NamedAfter(obj, fname) ==
    LET root == SplitExtRoot(fname)
    IN  Len(obj.name) >= Len(root) /\ SubSeq(obj.name, 1, Len(root)) = root

Warnings == SelectSeq(reports, LAMBDA r : r.level = "WARNING")

\* C1: when the import has finished, the created objects are exactly the
\* well-formed files of the batch, one object each and in sorted order, and
\* there is exactly one warning per malformed file (root not a non-empty
\* list, or p2DGeomVertex / Indices missing) and none for the others.
C1_SkipMalformedOnly ==
    pc = "done" =>
        LET good == SelectSeq(selected, LAMBDA f : WellFormed(disk[f]))
            bad == SelectSeq(selected, LAMBDA f : ~WellFormed(disk[f]))
        IN  /\ Len(objects) = Len(good)
            /\ Len(imported) = Len(good)
            /\ \A i \in 1..Len(imported) :
                  /\ imported[i] = <<i, good[i]>>
                  /\ NamedAfter(objects[i], good[i])
            /\ Len(Warnings) = Len(bad)
            /\ \A i \in 1..Len(Warnings) : Warnings[i].fname = bad[i]

\* The triangles floor(n / 3) non-overlapping windows of 3 give
FloorWindows(indices) ==
    [j \in 1..(Len(indices) \div 3) |->
        <<indices[3 * j - 2], indices[3 * j - 1], indices[3 * j]>>]

HasTrailingIndices(data) ==
    WellFormed(data) /\ Len(data.items[1].Properties.UimData.Indices) % 3 # 0

\* C2: a file whose Indices length is not a multiple of 3 is decoded without
\* error: once the loop has passed it, it is imported, not skipped, and its
\* object has exactly floor(n / 3) triangles, the consecutive windows of 3
\* indices in order.
C2_TrailingIndicesDropped ==
    \A p \in 1..Len(selected) :
        (pc # "sort" /\ (pc = "import" => p < cursor)
         /\ HasTrailingIndices(disk[selected[p]])) =>
            /\ \A w \in Range(Warnings) : w.fname # selected[p]
            /\ \E i \in 1..Len(imported) :
                  /\ imported[i][2] = selected[p]
                  /\ objects[imported[i][1]].faces =
                        FloorWindows(disk[selected[p]].items[1]
                                        .Properties.UimData.Indices)

\* Zero-based position of a name in the sorted batch
PositionIn(names, fname) == (CHOOSE i \in 1..Len(names) : names[i] = fname) - 1

\* C5: every frame index handed to the flipbook is the number right before
\* ".json" when the name has one, and otherwise the zero-based position of
\* the name in the natural-sorted batch of selected names.
C5_FrameIndexFromSortedBatch ==
    \A c \in Range(calls) :
        pc \in {"anim", "done"} =>
            LET fname == imported[c[1]][2]
            IN  c[2] = IF HasFrameNumber(fname) THEN FrameNumber(fname)
                       ELSE PositionIn(selected, fname)


\* a and b are the same name except for one maximal digit run, whose value
\* is smaller in a
NumericallyBefore(a, b) ==
    \E i \in 1..Len(a) :
        /\ i <= Len(b)
        /\ IsDigit(a[i]) /\ IsDigit(b[i])
        /\ i = 1 \/ ~IsDigit(a[i - 1])
        /\ SubSeq(a, 1, i - 1) = SubSeq(b, 1, i - 1)
        /\ LET ja == RunEnd(a, i, TRUE)
               jb == RunEnd(b, i, TRUE)
           IN  /\ SubSeq(a, ja + 1, Len(a)) = SubSeq(b, jb + 1, Len(b))
               /\ ToInt(SubSeq(a, i, ja)) < ToInt(SubSeq(b, i, jb))

\* The key's tokens alternate: lower-cased digit-free strings at odd
\* positions, the digit runs' integer values at even positions
AlternatingKey(name) ==
    LET k == NaturalKey(name)
        runs == ReSplit(name)
    IN  /\ Len(k) % 2 = 1
        /\ \A i \in 1..Len(k) :
              IF i % 2 = 0
              THEN k[i].int /\ k[i].n = ToInt(runs[i])
              ELSE /\ ~k[i].int
                   /\ \A j \in 1..Len(k[i].s) :
                         /\ ~IsDigit(k[i].s[j])
                         /\ LowerChar(k[i].s[j]) = k[i].s[j]

\* C8: the natural key of every selected name (taken when the sort is about
\* to run) alternates string and integer tokens; once sorted, two names that
\* differ only in the value of one digit run stand in increasing numeric
\* order, whatever the order they were given in; and objects are created in
\* the sorted order of their files.
C8_NaturalOrder ==
    /\ pc = "sort" => \A i \in 1..Len(selected) : AlternatingKey(selected[i])
    /\ pc # "sort" =>
          /\ \A i, j \in 1..Len(selected) :
                NumericallyBefore(selected[i], selected[j]) => i < j
          /\ \A i, j \in 1..Len(imported) :
                i < j => PositionIn(selected, imported[i][2])
                            < PositionIn(selected, imported[j][2])
          /\ \A i \in 1..Len(imported) :
                /\ imported[i][1] = i
                /\ NamedAfter(objects[i], imported[i][2])

\* A batch given as a10 before a2 is sorted to a2, a10 and both are imported
C8_Witness ==
    /\ pc = "done"
    /\ selected = <<<<"a", "2">> \o DotJson, <<"a", "1", "0">> \o DotJson>>
    /\ Len(imported) = 2
    /\ objects[1].name = <<"a", "2">> /\ objects[2].name = <<"a", "1", "0">>

Geometry(objs) == [i \in 1..Len(objs) |-> <<objs[i].name, objs[i].verts, objs[i].faces>>]

\* C10: keyframes are written and the timeline end moves only in the
\* flipbook phase, which starts after the import loop has created every
\* object; the flipbook phase leaves every object's name, vertices and
\* triangles and the list of objects alone; and with build_animation off no
\* keyframe is written and the timeline end stays.
C10_FlipbookAfterImport ==
    /\ [](pc \in {"sort", "import"} => kflog = <<>> /\ calls = <<>>)
    /\ [](~build_animation => kflog = <<>> /\ calls = <<>>)
    /\ [][/\ pc \in {"sort", "import"} => frame_end' = frame_end
          /\ ~build_animation => frame_end' = frame_end
          /\ Geometry(objects') # Geometry(objects) =>
                pc = "import" /\ kflog' = <<>>
          /\ pc = "anim" => /\ Geometry(objects') = Geometry(objects)
                            /\ imported' = imported
                            /\ selected' = selected]_vars

\* A finished flipbook import of two objects
C10_Witness ==
    /\ pc = "done" /\ build_animation
    /\ Len(objects) = 2 /\ Len(calls) = 2 /\ Len(kflog) > 0
    /\ frame_end > 2

-----------------------------------------------------------------------------
(* Properties of the flipbook *)

Max(a, b) == IF a > b THEN a ELSE b

\* Value of a boolean channel at frame f under constant interpolation: the
\* key at or before f holds; before the first key, the first key's value
\* holds; with no key, the property's value.
Eval(keys, f, value) ==
    IF keys = {} THEN value
    ELSE IF \E p \in keys : p[1] <= f
         THEN (CHOOSE p \in keys :
                  p[1] <= f /\ \A q \in keys : q[1] <= f => q[1] <= p[1])[2]
         ELSE (CHOOSE p \in keys : \A q \in keys : p[1] <= q[1])[2]

VisibleAt(obj, f) ==
    /\ ~Eval(obj.anim_viewport, f, obj.hide_viewport)
    /\ ~Eval(obj.anim_render, f, obj.hide_render)

HiddenAt(obj, f) ==
    /\ Eval(obj.anim_viewport, f, obj.hide_viewport)
    /\ Eval(obj.anim_render, f, obj.hide_render)

\* C3: an object scheduled at frame index k >= 1 has exactly the keyframes
\* 0 -> hidden, k-1 -> hidden, k -> visible, k+1 -> hidden on both channels,
\* and the call leaves the timeline end at max(end before, k + 1).
C3_KeyframesAndTimelineEnd ==
    /\ [](\A c \in Range(calls) :
            c[2] >= 1 =>
              LET keys == {<<0, TRUE>>, <<c[2] - 1, TRUE>>,
                           <<c[2], FALSE>>, <<c[2] + 1, TRUE>>}
              IN  /\ objects[c[1]].anim_viewport = keys
                  /\ objects[c[1]].anim_render = keys)
    /\ [][Len(calls') = Len(calls) + 1 =>
            LET k == calls'[Len(calls')][2]
            IN  k >= 1 => frame_end' = Max(frame_end, k + 1)]_vars

\* Frame index 3 scheduled on a timeline that ended before frame 4, and
\* frame index 1 with its three keyframes
C3_Witness ==
    /\ Len(calls) >= 2
    /\ calls[1] = <<1, 3>> /\ calls[2] = <<2, 1>>
    /\ frame_end = 4
    /\ objects[1].anim_viewport =
          {<<0, TRUE>>, <<2, TRUE>>, <<3, FALSE>>, <<4, TRUE>>}
    /\ Cardinality(objects[2].anim_viewport) = 3

AllScheduled == Len(calls) = Len(objects)

DistinctFrames == \A i, j \in 1..Len(calls) : i # j => calls[i][2] # calls[j][2]

\* C4: once every object is scheduled, with pairwise distinct frame
\* indices, each object is visible at frame f exactly when f is its own
\* frame index, for every f from 0 to the timeline end, so no two objects
\* are visible at one frame; and a call never changes the keyframes of an
\* object scheduled before.
C4_OneFrameEach ==
    /\ []((AllScheduled /\ DistinctFrames) =>
            /\ \A c \in Range(calls) : \A f \in 0..frame_end :
                  /\ VisibleAt(objects[c[1]], f) <=> f = c[2]
                  /\ HiddenAt(objects[c[1]], f) <=> f # c[2]
            /\ \A f \in 0..frame_end :
                  Cardinality({o \in 1..Len(objects) :
                                  VisibleAt(objects[o], f)}) <= 1)
    /\ [][\A c \in Range(calls) :
            /\ objects'[c[1]].anim_viewport = objects[c[1]].anim_viewport
            /\ objects'[c[1]].anim_render = objects[c[1]].anim_render]_vars

\* Three objects on the adjacent frames 1, 0, 2
C4_Witness ==
    /\ AllScheduled /\ DistinctFrames
    /\ Len(calls) = 3
    /\ calls[1][2] = 1 /\ calls[2][2] = 0 /\ calls[3][2] = 2

\* The keyframe_insert calls made for object o, in order
WritesOf(o) == SelectSeq(kflog, LAMBDA w : w.obj = o)

\* C9 as stated: an object scheduled at frame index 0 gets no Hidden write
\* at frame 0 and no write at frame -1; its only writes are Visible at
\* frame 0 and Hidden at frame 1.
C9_NoHiddenWriteAtZero ==
    \A c \in Range(calls) :
        c[2] = 0 =>
            \A w \in Range(WritesOf(c[1])) :
                /\ ~(w.frame = 0 /\ w.value)
                /\ w.frame # -1
                /\ (w.frame = 0 /\ ~w.value) \/ (w.frame = 1 /\ w.value)

\* C9, amended: an object scheduled at frame index 0 is first keyed Hidden
\* at frame 0, then keyed Visible at frame 0, which replaces that key, then
\* keyed Hidden at frame 1; nothing is written at frame -1, and the
\* resulting keyframes are exactly 0 -> visible, 1 -> hidden.
C9_HiddenAtZeroOverwritten ==
    \A c \in Range(calls) :
        c[2] = 0 =>
            LET ws == WritesOf(c[1])
            IN  /\ [i \in 1..Len(ws) |-> <<ws[i].frame, ws[i].value>>] =
                      <<<<0, TRUE>>, <<0, TRUE>>, <<0, FALSE>>, <<0, FALSE>>,
                        <<1, TRUE>>, <<1, TRUE>>>>
                /\ \A i \in 1..Len(ws) :
                      ws[i].data_path = IF i % 2 = 1 THEN "hide_viewport"
                                        ELSE "hide_render"
                /\ objects[c[1]].anim_viewport = {<<0, FALSE>>, <<1, TRUE>>}
                /\ objects[c[1]].anim_render = {<<0, FALSE>>, <<1, TRUE>>}

\* An object scheduled at frame index 0
C9_Witness ==
    /\ Len(calls) >= 1 /\ calls[1] = <<1, 0>>
    /\ objects[1].anim_viewport = {<<0, FALSE>>, <<1, TRUE>>}
    /\ Len(WritesOf(1)) = 6

-----------------------------------------------------------------------------
(* Properties of the export and of the codec *)

Stems(files) == {SplitExtRoot(f[1]) : f \in files}

MeshNames(objs) == {objs[i].name : i \in {j \in 1..Len(objs) : objs[j].type = "MESH"}}

\* C6: files are written in pairs only: whenever the operator has handled
\* an object, the .json names written and the .txt names written are the
\* same set, all of them names of mesh objects in scope; on completion every
\* mesh object in scope has its pair and the reported count is the number of
\* mesh objects in scope.
C6_PairsOnly ==
    /\ Stems(json_files) = Stems(txt_files)
    /\ Stems(json_files) \subseteq MeshNames(Scope)
    /\ pc \in {"done", "raised"} \/ cursor > Len(Scope) =>
          /\ pc # "raised"
          /\ Stems(json_files) = MeshNames(Scope)
          /\ exported = Cardinality(MeshNames(Scope))
    /\ pc = "done" => reports = <<[level |-> "INFO",
                                   count |-> Cardinality(MeshNames(Scope))]>>

=============================================================================
